---------------------------- MODULE Spec2Model ----------------------------
(***************************************************************************)
(* A model of fibdrv.c, the Fibonacci character-device driver:             *)
(*   - fib_sequence        fast-doubling F(k) in a 64-bit long long        *)
(*   - add_string          schoolbook addition of little-endian digits     *)
(*   - reverse_string      in-place XOR-swap reversal                      *)
(*   - fib_sequence_string the table of decimal strings behind fib_read    *)
(*   - fib_open / fib_release / fib_device_lseek, the file operations      *)
(*                                                                         *)
(* A long long is a sequence of Limbs bytes, least significant first, and  *)
(* all its arithmetic is modulo 2^64 (the kernel is built with             *)
(* -fno-strict-overflow, so signed overflow wraps).  A C string is a       *)
(* sequence of byte values; C index j is TLA+ index j + 1.                 *)
(***************************************************************************)
EXTENDS Integers, Sequences, FiniteSets, TLC

VARIABLES fib_mutex, files, last_call, seq, add, rev, rd, ntables

vars == <<fib_mutex, files, last_call, seq, add, rev, rd, ntables>>

-----------------------------------------------------------------------------
(* Program constants *)

MAX_LENGTH == 500

SLOT_BYTES == 128

EBUSY == 16

(* The largest k whose F(k) fits a signed 64-bit integer. *)
MAX_FIT == 92

-----------------------------------------------------------------------------
(* Bounds of the model *)

(* fib_sequence is called with k in 0 .. MaxSeqK *)
MaxSeqK == 93

(* lseek is given the offsets -MaxSeekStep .. MaxSeekStep, those around    *)
(* +-MAX_LENGTH, and the two extreme values of a loff_t                    *)
MaxSeekStep == 1

(* fib_read is given memory with arbitrary prior contents for the indices *)
(* 0 .. MaxDirtyK, and zeroed memory for the larger ones                   *)
MaxDirtyK == 5

(* at most MaxTables tables are allocated in one behaviour *)
MaxTables == 2

(* add_string is given digit strings of 1 .. MaxAddLen digits *)
MaxAddLen == 2

(* the formatting step is given digit strings of 1 .. MaxRevLen digits *)
MaxRevLen == 3

-----------------------------------------------------------------------------
(* 64-bit integers (long long, loff_t): Limbs bytes, little-endian *)

Limbs == 8

LimbBase == 256

(* the element of a one-element set.  The loops below are written          *)
(*     Only({ Loop(m, mid, hi) : m \in {Loop(st, lo, mid)} })              *)
(* so that the first half is evaluated before the second half starts       *)
Only(S) == CHOOSE r \in S : TRUE

Max(m, n) == IF m >= n THEN m ELSE n

U64Zero == <<0, 0, 0, 0, 0, 0, 0, 0>>

RECURSIVE NatLimbs(_, _)
NatLimbs(n, i) ==
    IF i > Limbs THEN <<>>
    ELSE <<n % LimbBase>> \o NatLimbs(n \div LimbBase, i + 1)

U64FromNat(n) == NatLimbs(n, 1)

RECURSIVE AddFrom(_, _, _, _)
AddFrom(x, y, i, carry) ==
    IF i > Limbs THEN <<>>
    ELSE LET s == x[i] + y[i] + carry
         IN  <<s % LimbBase>> \o AddFrom(x, y, i + 1, s \div LimbBase)

(* x + y modulo 2^64 *)
U64Add(x, y) == AddFrom(x, y, 1, 0)

RECURSIVE NotFrom(_, _)
NotFrom(x, i) ==
    IF i > Limbs THEN <<>>
    ELSE <<(LimbBase - 1) - x[i]>> \o NotFrom(x, i + 1)

U64Not(x) == NotFrom(x, 1)

U64Neg(x) == U64Add(U64Not(x), U64FromNat(1))

(* x - y modulo 2^64 *)
U64Sub(x, y) == U64Add(x, U64Neg(y))

U64FromInt(n) == IF n >= 0 THEN U64FromNat(n) ELSE U64Neg(U64FromNat(-n))

(* the sum of x[i] * y[col + 1 - i] for i in 1 .. col *)
RECURSIVE ColSum(_, _, _, _)
ColSum(x, y, col, i) ==
    IF i > col THEN 0 ELSE x[i] * y[col + 1 - i] + ColSum(x, y, col, i + 1)

RECURSIVE MulFrom(_, _, _, _)
MulFrom(x, y, col, carry) ==
    IF col > Limbs THEN <<>>
    ELSE LET s == ColSum(x, y, col, 1) + carry
         IN  <<s % LimbBase>> \o MulFrom(x, y, col + 1, s \div LimbBase)

(* x * y modulo 2^64 *)
U64Mul(x, y) == MulFrom(x, y, 1, 0)

(* bit 63: the sign bit of a long long, and the mask 1ULL << 63 *)
TopBit(x) == x[Limbs] >= LimbBase \div 2

U64Shl1(x) == U64Add(x, x)

Byte(x, j) == IF j >= 1 /\ j <= Limbs THEN x[j] ELSE 0

(* limbs i .. Limbs of x shifted left by 8 * q + r bits, 0 <= r < 8 *)
RECURSIVE ShlFrom(_, _, _, _)
ShlFrom(x, q, r, i) ==
    IF i > Limbs THEN <<>>
    ELSE <<(((Byte(x, i - q) * (2 ^ r)) % LimbBase)
            + ((Byte(x, i - q - 1) * (2 ^ r)) \div LimbBase)) % LimbBase>>
         \o ShlFrom(x, q, r, i + 1)

(* x << n modulo 2^64, 0 <= n < 64 *)
U64Shl(x, n) == ShlFrom(x, n \div 8, n % 8, 1)

RECURSIVE BitLen(_)
BitLen(v) == IF v = 0 THEN 0 ELSE 1 + BitLen(v \div 2)

RECURSIVE ClzFrom(_, _)
ClzFrom(x, i) ==
    IF x[i] = 0 THEN 8 + ClzFrom(x, i - 1) ELSE 8 - BitLen(x[i])

(* __builtin_clzll, for x # 0 *)
Clzll(x) == ClzFrom(x, Limbs)

RECURSIVE ULessFrom(_, _, _)
ULessFrom(x, y, i) ==
    IF i = 0 THEN FALSE
    ELSE IF x[i] # y[i] THEN x[i] < y[i]
    ELSE ULessFrom(x, y, i - 1)

(* x < y as signed 64-bit integers *)
SLess(x, y) ==
    IF TopBit(x) # TopBit(y) THEN TopBit(x) ELSE ULessFrom(x, y, Limbs)

(* the value of a long long known to be small (|x| < 2^31) *)
U64ToNat(x) == x[1] + LimbBase * x[2] + LimbBase * LimbBase * x[3]
                 + LimbBase * LimbBase * LimbBase * x[4]

U64ToInt(x) == IF TopBit(x) THEN -U64ToNat(U64Neg(x)) ELSE U64ToNat(x)

-----------------------------------------------------------------------------
(* Exact decimal arithmetic, used to state the claims: a natural number is *)
(* its sequence of digits 0..9, least significant first, no leading zero.  *)

(* digit i of p, 0 past its end *)
RefDigit(p, i) == IF i <= Len(p) THEN p[i] ELSE 0

(* st = [digits, carry] after columns 1 .. lo - 1, taken on through the    *)
(* columns lo .. hi - 1; the range is halved so the evaluation is shallow  *)
RECURSIVE RefAddRange(_, _, _, _, _)
RefAddRange(p, q, st, lo, hi) ==
    IF lo >= hi THEN st
    ELSE IF hi = lo + 1
    THEN [digits |-> Append(st.digits, (RefDigit(p, lo) + RefDigit(q, lo) + st.carry) % 10),
          carry |-> (RefDigit(p, lo) + RefDigit(q, lo) + st.carry) \div 10]
    ELSE Only({ RefAddRange(p, q, m, (lo + hi) \div 2, hi) :
                    m \in {RefAddRange(p, q, st, lo, (lo + hi) \div 2)} })

RefAdd(p, q) ==
    LET r == RefAddRange(p, q, [digits |-> <<>>, carry |-> 0], 1,
                         Max(Len(p), Len(q)) + 1)
    IN  IF r.carry = 0 THEN r.digits ELSE Append(r.digits, r.carry)

(* the table t = <<F(0), ..., F(Len(t) - 1)>> extended to <<F(0), ..., F(n)>> *)
RECURSIVE RefFibExtend(_, _)
RefFibExtend(t, n) ==
    IF Len(t) > n THEN t
    ELSE RefFibExtend(Append(t, RefAdd(t[Len(t)], t[Len(t) - 1])), n)

(* <<F(0), F(1), ..., F(n)>>, n >= 1 *)
RefFibTable(n) == RefFibExtend(<< <<0>>, <<1>> >>, n)

(* <<F(m), F(m + 1)>> advanced n places to <<F(m + n), F(m + n + 1)>>,    *)
(* halving n so that the evaluation stays shallow                          *)
RECURSIVE RefFibAdvance(_, _)
RefFibAdvance(pair, n) ==
    IF n = 0 THEN pair
    ELSE IF n = 1 THEN <<pair[2], RefAdd(pair[1], pair[2])>>
    ELSE Only({ RefFibAdvance(m, n - (n \div 2)) :
                    m \in {RefFibAdvance(pair, n \div 2)} })

(* the digits of F(n) *)
RefFibDigits(n) == RefFibAdvance(<< <<0>>, <<1>> >>, n)[1]

(* x divided by ten, from limb i down with remainder rem carried in:       *)
(* <<quotient limbs 1 .. i, remainder>>, x taken as unsigned               *)
RECURSIVE DivFrom(_, _, _)
DivFrom(x, i, rem) ==
    IF i = 0 THEN << <<>>, rem >>
    ELSE LET cur == rem * LimbBase + x[i]
             low == DivFrom(x, i - 1, cur % 10)
         IN  << Append(low[1], cur \div 10), low[2] >>

U64DivMod10(x) == DivFrom(x, Limbs, 0)

RECURSIVE U64Digits(_)
U64Digits(x) ==
    LET qr == U64DivMod10(x)
    IN  IF qr[1] = U64Zero THEN <<qr[2]>> ELSE <<qr[2]>> \o U64Digits(qr[1])

(* the decimal value of a long long: its sign and its digits *)
LLDecimal(x) ==
    IF TopBit(x) THEN [neg |-> TRUE, digits |-> U64Digits(U64Neg(x))]
    ELSE [neg |-> FALSE, digits |-> U64Digits(x)]

-----------------------------------------------------------------------------
(* fib_sequence: one action per call and per iteration of its loop *)

SeqIdle == [pc |-> "idle", k_in |-> 0, k |-> U64Zero, a |-> U64Zero,
            b |-> U64Zero, counter |-> 0, ret |-> U64Zero]

(* the slip t1 = a * (2 * b + a) *)
DoubleEvenPlus(a, b) == U64Mul(a, U64Add(U64Shl1(b), a))

(* t1 = a * (2 * b - a) *)
DoubleEven(a, b) == U64Mul(a, U64Sub(U64Shl1(b), a))

(* t2 = b * b + a * a *)
DoubleOdd(a, b) == U64Add(U64Mul(b, b), U64Mul(a, a))

(* entry: k < 2 returns k; otherwise a = 0, b = 1, counter = 64 - clz(k),  *)
(* k <<= clz(k)                                                            *)
fib_sequence_call(k) ==
    /\ seq.pc \in {"idle", "done"}
    /\ LET kk == U64FromNat(k)
       IN  seq' = IF k < 2
                  THEN [SeqIdle EXCEPT !.pc = "done", !.k_in = k, !.k = kk, !.ret = kk]
                  ELSE [pc |-> "loop", k_in |-> k, k |-> U64Shl(kk, Clzll(kk)),
                        a |-> U64Zero, b |-> U64FromNat(1),
                        counter |-> 64 - Clzll(kk), ret |-> U64Zero]
    /\ UNCHANGED <<fib_mutex, files, last_call, add, rev, rd, ntables>>

(* one iteration of for (; counter; k <<= 1, counter--) *)
fib_sequence_iter ==
    /\ seq.pc = "loop"
    /\ seq.counter # 0
    /\ LET t1 == DoubleEven(seq.a, seq.b)
           t2 == DoubleOdd(seq.a, seq.b)
           odd == TopBit(seq.k)
       IN  seq' = [seq EXCEPT !.a = IF odd THEN t2 ELSE t1,
                              !.b = IF odd THEN U64Add(t1, t2) ELSE t2,
                              !.k = U64Shl1(seq.k),
                              !.counter = seq.counter - 1]
    /\ UNCHANGED <<fib_mutex, files, last_call, add, rev, rd, ntables>>

(* return a *)
fib_sequence_return ==
    /\ seq.pc = "loop"
    /\ seq.counter = 0
    /\ seq' = [seq EXCEPT !.pc = "done", !.ret = seq.a]
    /\ UNCHANGED <<fib_mutex, files, last_call, add, rev, rd, ntables>>

-----------------------------------------------------------------------------
(* C strings: a buffer is a sequence of byte values, C index j at j + 1 *)

(* '\0' *)
NUL == 0

(* '0' *)
CH_0 == 48

(* '1' *)
CH_1 == 49

(* C's / and %, which truncate toward zero *)
CDiv(m, n) == IF m >= 0 THEN m \div n ELSE -((-m) \div n)

CMod(m, n) == m - n * CDiv(m, n)

(* buf[j] = v *)
Store(buf, j, v) == [buf EXCEPT ![j + 1] = v]

(* strlen: the index of the first NUL *)
strlen(s) ==
    CHOOSE j \in 0..(Len(s) - 1) :
        s[j + 1] = NUL /\ \A i \in 0..(j - 1) : s[i + 1] # NUL

(* sum = (x[i] - '0') + (y[i] - '0') + carry;                              *)
(* next[i] = '0' + sum % 10;  carry = sum / 10;                            *)
SumStep(x, y, st, i) ==
    LET sum == (x[i + 1] - CH_0) + (y[i + 1] - CH_0) + st.carry
    IN  [next |-> Store(st.next, i, CH_0 + CMod(sum, 10)), carry |-> CDiv(sum, 10)]

(* for (i = lo; i < hi; i++) with the body above, from st = [next, carry]; *)
(* the range is halved to keep the evaluation shallow                      *)
RECURSIVE SumLoop(_, _, _, _, _)
SumLoop(x, y, st, lo, hi) ==
    IF lo >= hi THEN st
    ELSE IF hi = lo + 1 THEN SumStep(x, y, st, lo)
    ELSE Only({ SumLoop(x, y, m, (lo + hi) \div 2, hi) :
                    m \in {SumLoop(x, y, st, lo, (lo + hi) \div 2)} })

(* sum = (x[i] - '0') + carry;  next[i] = '0' + sum % 10;  carry = sum / 10 *)
CarryStep(x, st, i) ==
    LET sum == (x[i + 1] - CH_0) + st.carry
    IN  [next |-> Store(st.next, i, CH_0 + CMod(sum, 10)), carry |-> CDiv(sum, 10)]

(* for (i = lo; i < hi; i++) with the body above *)
RECURSIVE CarryLoop(_, _, _, _)
CarryLoop(x, st, lo, hi) ==
    IF lo >= hi THEN st
    ELSE IF hi = lo + 1 THEN CarryStep(x, st, lo)
    ELSE Only({ CarryLoop(x, m, (lo + hi) \div 2, hi) :
                    m \in {CarryLoop(x, st, lo, (lo + hi) \div 2)} })

(* if (carry) next[i] = '1';  next[++i] = '\0'; *)
AddTail(r, i) ==
    Store(IF r.carry # 0 THEN Store(r.next, i, CH_1) ELSE r.next, i + 1, NUL)

(* add_string(x, y, next): the contents of next afterwards; next comes in   *)
(* holding whatever the memory held before the call                        *)
add_string(x, y, next) ==
    LET x_size == strlen(x)
        y_size == strlen(y)
        st0 == [next |-> next, carry |-> 0]
    IN  IF x_size >= y_size
        THEN AddTail(CarryLoop(x, SumLoop(x, y, st0, 0, y_size), y_size, x_size),
                     x_size)
        ELSE AddTail(CarryLoop(y, SumLoop(x, y, st0, 0, x_size), x_size, y_size),
                     y_size)

(* a ^ b on byte values *)
RECURSIVE Xor(_, _)
Xor(m, n) ==
    IF m = 0 THEN n
    ELSE IF n = 0 THEN m
    ELSE ((m + n) % 2) + 2 * Xor(m \div 2, n \div 2)

(* the three XOR assignments of the loop body, on str[i] and str[j] *)
XorSwap(str, i, j) ==
    LET s1 == Store(str, i, Xor(str[i + 1], str[j + 1]))
        s2 == Store(s1, j, Xor(s1[i + 1], s1[j + 1]))
    IN  Store(s2, i, Xor(s2[i + 1], s2[j + 1]))

(* the loop test stopping one pair short: i < size - 1 - i *)
ReverseTestShort(size, i) == i < size - 1 - i

(* the loop test i < size - i: size is a size_t, so size - i is unsigned   *)
(* and a negative difference wraps to a huge value                         *)
ReverseTest(size, i) == size - i < 0 \/ i < size - i

(* the number of iterations of for (int i = 0; i < size - i; i++) *)
ReverseCount(size) ==
    CHOOSE n \in 0..(size + 1) :
        ~ReverseTest(size, n) /\ \A i \in 0..(n - 1) : ReverseTest(size, i)

(* the iterations lo .. hi - 1 of the loop, each swapping str[i] and       *)
(* str[size - i]; the range is halved so that the evaluation stays shallow *)
RECURSIVE ReverseLoop(_, _, _, _)
ReverseLoop(str, size, lo, hi) ==
    IF lo >= hi THEN str
    ELSE IF hi = lo + 1 THEN XorSwap(str, lo, size - lo)
    ELSE Only({ ReverseLoop(m, size, (lo + hi) \div 2, hi) :
                    m \in {ReverseLoop(str, size, lo, (lo + hi) \div 2)} })

reverse_string(str, size) == ReverseLoop(str, size, 0, ReverseCount(size))

(* size = strlen(res[k].fib); reverse_string(res[k].fib, size - 1); *)
format_result(buf) == reverse_string(buf, strlen(buf) - 1)

-----------------------------------------------------------------------------
(* fib_read and fib_sequence_string.  rd is the call in progress:          *)
(*   k, alloc_ok, prior  the index, whether kmalloc succeeded, and what    *)
(*                       the bytes of each slot held before the call       *)
(*   res                 the table, slot j at res[j + 1], each slot the    *)
(*                       leading bytes the call has determined             *)
(*   slots               the number of slots kmalloc was asked for         *)
(*   max_slot, max_bytes the highest slot index written and the most bytes *)
(*                       of one slot touched (-1 and 0 before any write)   *)
(*   ret, ubuf           the value returned and the bytes copied to user   *)
(* ntables counts the tables allocated and not freed.                      *)

RdIdle == [pc |-> "idle", k |-> 0, alloc_ok |-> TRUE, prior |-> <<>>, res |-> <<>>,
           i |-> 0, slots |-> 0, max_slot |-> -1, max_bytes |-> 0,
           null_write |-> FALSE, ret |-> 0, ubuf |-> <<>>]

(* n bytes each holding g *)
Fill(g, n) == [j \in 1..n |-> g]

(* what every byte of slot j held when kmalloc handed the table over:      *)
(* prior lists slots 2, 3, ...; a slot it does not list held NUL           *)
PriorOf(prior, j) == IF j - 1 \in DOMAIN prior THEN prior[j - 1] ELSE NUL

(* the first n bytes of buf *)
Prefix(buf, n) == SubSeq(buf, 1, n)

(* fib_read passes *offset on; fib_sequence_string calls kmalloc for k + 1 *)
(* slots and, without looking at the pointer, seeds res[0] and res[1]      *)
fib_read(offset, alloc_ok, prior) ==
    /\ rd.pc \in {"idle", "returned", "oops"}
    /\ IF alloc_ok
       THEN /\ rd' = [RdIdle EXCEPT !.pc = "loop", !.k = offset, !.prior = prior,
                                    !.res = << <<CH_0, NUL>>, <<CH_1, NUL>> >>,
                                    !.i = 2, !.slots = offset + 1,
                                    !.max_slot = 1, !.max_bytes = 2]
            /\ ntables' = ntables + 1
       ELSE /\ rd' = [RdIdle EXCEPT !.pc = "oops", !.k = offset, !.prior = prior,
                                    !.alloc_ok = FALSE, !.null_write = TRUE]
            /\ ntables' = ntables
    /\ UNCHANGED <<fib_mutex, files, last_call, seq, add, rev>>

(* one iteration of for (int i = 2; i <= k; i++) *)
fib_read_add ==
    /\ rd.pc = "loop"
    /\ rd.i <= rd.k
    /\ LET x == rd.res[rd.i]
           y == rd.res[rd.i - 1]
           n == Max(strlen(x), strlen(y)) + 2
           next == add_string(x, y, Fill(PriorOf(rd.prior, rd.i), n))
       IN  rd' = [rd EXCEPT !.res = Append(rd.res, next),
                            !.i = rd.i + 1,
                            !.max_slot = rd.i,
                            !.max_bytes = Max(rd.max_bytes, n)]
    /\ UNCHANGED <<fib_mutex, files, last_call, seq, add, rev, ntables>>

(* size = strlen(res[k].fib); reverse_string(res[k].fib, size - 1);        *)
(* __copy_to_user(buf, res[k].fib, size + 1); return size;                 *)
fib_read_return ==
    /\ rd.pc = "loop"
    /\ rd.i > rd.k
    /\ LET size == strlen(rd.res[rd.k + 1])
       IN  rd' = [rd EXCEPT !.pc = "returned",
                            !.ret = size,
                            !.ubuf = Prefix(format_result(rd.res[rd.k + 1]), size + 1),
                            !.res = <<>>]
    /\ UNCHANGED <<fib_mutex, files, last_call, seq, add, rev, ntables>>

-----------------------------------------------------------------------------
(* The file operations.  fib_mutex is 0 (unlocked) or 1 (locked); files[p] *)
(* is the struct file of process p's descriptor, with f_pos 0 when the VFS *)
(* creates it; last_call records the latest call, its arguments and the    *)
(* value it returned.                                                      *)

Procs == {"p1", "p2"}

NoFile == [open |-> FALSE, f_pos |-> 0]

DriverInit ==
    /\ fib_mutex = 0
    /\ files = [p \in Procs |-> NoFile]
    /\ last_call = [op |-> "none"]

(* mutex_trylock: 1 and the mutex taken when it was free, 0 otherwise *)
mutex_trylock(m) == IF m = 0 THEN [got |-> 1, m |-> 1] ELSE [got |-> 0, m |-> m]

(* an open that never looks at what mutex_trylock returned *)
OpenResultIgnoring(got) == 0

(* if (!mutex_trylock(&fib_mutex)) return -EBUSY; return 0; *)
OpenResult(got) == IF got = 0 THEN -EBUSY ELSE 0

fib_open(p) ==
    /\ ~files[p].open
    /\ LET t == mutex_trylock(fib_mutex)
           r == OpenResult(t.got)
       IN  /\ fib_mutex' = t.m
           /\ files' = IF r = 0 THEN [files EXCEPT ![p] = [open |-> TRUE, f_pos |-> 0]]
                       ELSE files
           /\ last_call' = [op |-> "open", proc |-> p, was_locked |-> fib_mutex,
                            ret |-> r]
    /\ UNCHANGED <<seq, add, rev, rd, ntables>>

(* mutex_unlock(&fib_mutex); return 0; the VFS then frees the struct file *)
fib_release(p) ==
    /\ files[p].open
    /\ fib_mutex' = 0
    /\ files' = [files EXCEPT ![p] = NoFile]
    /\ last_call' = [op |-> "release", proc |-> p, ret |-> 0]
    /\ UNCHANGED <<seq, add, rev, rd, ntables>>

LLONG_MAX == <<255, 255, 255, 255, 255, 255, 255, 127>>

LLONG_MIN == <<0, 0, 0, 0, 0, 0, 0, 128>>

(* loff_t new_pos = 0; switch (orig) { ... } *)
SeekTarget(f_pos, offset, orig) ==
    CASE orig = 0 -> offset
      [] orig = 1 -> U64Add(f_pos, offset)
      [] orig = 2 -> U64Sub(U64FromNat(MAX_LENGTH), offset)
      [] OTHER -> U64Zero

(* the clamp without its lower test *)
SeekClampUpperOnly(new_pos) ==
    IF SLess(U64FromNat(MAX_LENGTH), new_pos) THEN U64FromNat(MAX_LENGTH) ELSE new_pos

(* if (new_pos > MAX_LENGTH) new_pos = MAX_LENGTH;                         *)
(* if (new_pos < 0) new_pos = 0;                                           *)
SeekClamp(new_pos) ==
    LET c1 == IF SLess(U64FromNat(MAX_LENGTH), new_pos)
              THEN U64FromNat(MAX_LENGTH) ELSE new_pos
    IN  IF SLess(c1, U64Zero) THEN U64Zero ELSE c1

fib_device_lseek(p, offset, orig) ==
    /\ files[p].open
    /\ LET new_pos == SeekTarget(U64FromNat(files[p].f_pos), offset, orig)
           clamped == SeekClamp(new_pos)
       IN  /\ files' = [files EXCEPT ![p].f_pos = U64ToInt(clamped)]
           /\ last_call' = [op |-> "lseek", proc |-> p, offset |-> offset,
                            orig |-> orig, ret |-> clamped]
    /\ UNCHANGED <<fib_mutex, seq, add, rev, rd, ntables>>

AddIdle == [pc |-> "idle", x |-> <<NUL>>, y |-> <<NUL>>, prior |-> <<>>, next |-> <<>>]

RevIdle == [pc |-> "idle", str_in |-> <<NUL>>, str |-> <<NUL>>]


-----------------------------------------------------------------------------
(* The scalar engine on its own *)

SeqInit ==
    /\ DriverInit
    /\ seq = SeqIdle
    /\ add = AddIdle
    /\ rev = RevIdle
    /\ rd = RdIdle
    /\ ntables = 0

SeqNext ==
    \/ \E k \in 0..MaxSeqK : fib_sequence_call(k)
    \/ fib_sequence_iter
    \/ fib_sequence_return

SpecSeq == SeqInit /\ [][SeqNext]_vars

RefFib == RefFibTable(MaxSeqK + 1)

(* C2: whenever fib_sequence(k) has returned for a k in 0 .. MAX_FIT, the  *)
(* value returned is exactly F(k), the value exact decimal addition gives, *)
(* also when the accumulator b has wrapped modulo 2^64.                    *)
C2_FibSequenceExact ==
    (seq.pc = "done" /\ seq.k_in <= MAX_FIT)
        => LLDecimal(seq.ret) = [neg |-> FALSE, digits |-> RefFib[seq.k_in + 1]]

(* fib_sequence(92) has returned and b, then F(93) modulo 2^64, is negative *)
C2_Witness ==
    /\ seq.pc = "done"
    /\ seq.k_in = MAX_FIT
    /\ TopBit(seq.b)
    /\ LLDecimal(seq.b).digits # RefFib[seq.k_in + 2]

-----------------------------------------------------------------------------
(* The adder on its own: Init draws the two operands and what the          *)
(* destination buffer held before the call                                 *)

DigitChars == CH_0 .. (CH_0 + 9)

(* the NUL-terminated strings of 1 .. n digit characters *)
DigitStrings(n) ==
    { s \o <<NUL>> : s \in UNION { [1..l -> DigitChars] : l \in 1..n } }

(* what a byte of memory never written by the call may hold: NUL or a     *)
(* stale digit                                                             *)
AddPriorBytes == {NUL, CH_0 + 7}

add_string_call ==
    /\ add.pc = "ready"
    /\ add' = [add EXCEPT !.pc = "done",
                          !.next = add_string(add.x, add.y, add.prior)]
    /\ UNCHANGED <<fib_mutex, files, last_call, seq, rev, rd, ntables>>

AddInit ==
    /\ DriverInit
    /\ seq = SeqIdle
    /\ \E x \in DigitStrings(MaxAddLen), y \in DigitStrings(MaxAddLen) :
         \E nx \in [1..(Max(Len(x), Len(y)) + 1) -> AddPriorBytes] :
            add = [pc |-> "ready", x |-> x, y |-> y, prior |-> nx, next |-> nx]
    /\ rev = RevIdle
    /\ rd = RdIdle
    /\ ntables = 0

AddNext == add_string_call

SpecAdd == AddInit /\ [][AddNext]_vars

(* the number a little-endian string of n characters spells *)
RECURSIVE StrValue(_, _)
StrValue(s, n) == IF n = 0 THEN 0 ELSE (s[1] - CH_0) + 10 * StrValue(Tail(s), n - 1)

RECURSIVE Pow10(_)
Pow10(n) == IF n = 0 THEN 1 ELSE 10 * Pow10(n - 1)

AddSum == StrValue(add.x, strlen(add.x)) + StrValue(add.y, strlen(add.y))

AddMaxLen == Max(strlen(add.x), strlen(add.y))

(* C3: after add_string(X, Y, next), next is a NUL-terminated string of    *)
(* digits spelling X + Y, of length max(m, n) without a final carry and    *)
(* max(m, n) + 1 with one, whatever next held before.                      *)
C3_AddStringSum ==
    add.pc = "done" =>
        LET n == strlen(add.next)
        IN  /\ \A j \in 1..n : add.next[j] \in DigitChars
            /\ StrValue(add.next, n) = AddSum
            /\ n = IF AddSum >= Pow10(AddMaxLen) THEN AddMaxLen + 1 ELSE AddMaxLen

(* the same statement for the calls whose destination byte at index        *)
(* max(m, n) held NUL before the call, or that end in a carry              *)
C3_AddStringSumClean ==
    (add.pc = "done" /\ (AddSum >= Pow10(AddMaxLen) \/ add.prior[AddMaxLen + 1] = NUL)) =>
        LET n == strlen(add.next)
        IN  /\ \A j \in 1..n : add.next[j] \in DigitChars
            /\ StrValue(add.next, n) = AddSum
            /\ n = IF AddSum >= Pow10(AddMaxLen) THEN AddMaxLen + 1 ELSE AddMaxLen

-----------------------------------------------------------------------------
(* The formatting step on its own *)

format_call ==
    /\ rev.pc = "ready"
    /\ rev' = [rev EXCEPT !.pc = "done", !.str = format_result(rev.str_in)]
    /\ UNCHANGED <<fib_mutex, files, last_call, seq, add, rd, ntables>>

RevInit ==
    /\ DriverInit
    /\ seq = SeqIdle
    /\ add = AddIdle
    /\ \E s \in DigitStrings(MaxRevLen) : rev = [pc |-> "ready", str_in |-> s, str |-> s]
    /\ rd = RdIdle
    /\ ntables = 0

RevNext == format_call

SpecRev == RevInit /\ [][RevNext]_vars

(* C10: the formatting step reverses a buffer of L >= 1 digits over its    *)
(* whole length: position j ends with the digit that was at L - 1 - j,     *)
(* the terminator stays at position L, and a one-digit buffer is unchanged *)
C10_FormatReversesAll ==
    rev.pc = "done" =>
        LET L == strlen(rev.str_in)
        IN  /\ \A j \in 0..(L - 1) : rev.str[j + 1] = rev.str_in[(L - 1 - j) + 1]
            /\ rev.str[L + 1] = NUL
            /\ Len(rev.str) = Len(rev.str_in)
            /\ (L = 1 => rev.str = rev.str_in)

(* a buffer of even length whose two ends differ has been formatted *)
C10_Witness ==
    /\ rev.pc = "done"
    /\ strlen(rev.str_in) = 2
    /\ rev.str_in[1] # rev.str_in[2]
    /\ rev.str[1] = rev.str_in[2]

-----------------------------------------------------------------------------
(* The file operations: open, release and lseek by the processes *)

SeekOffsets ==
    { U64FromInt(n) : n \in (-MaxSeekStep..MaxSeekStep)
                            \cup {-MAX_LENGTH - 1, -MAX_LENGTH, MAX_LENGTH, MAX_LENGTH + 1} }
      \cup {LLONG_MAX, LLONG_MIN}

(* SEEK_SET, SEEK_CUR, SEEK_END, and SEEK_DATA for the whence values the   *)
(* switch has no case for                                                  *)
SeekModes == 0..3

Init ==
    /\ DriverInit
    /\ seq = SeqIdle
    /\ add = AddIdle
    /\ rev = RevIdle
    /\ rd = RdIdle
    /\ ntables = 0

Next ==
    \/ \E p \in Procs : fib_open(p)
    \/ \E p \in Procs : fib_release(p)
    \/ \E p \in Procs, offset \in SeekOffsets, orig \in SeekModes :
          fib_device_lseek(p, offset, orig)

Spec == Init /\ [][Next]_vars

(* an offset small enough to compute with as a plain integer *)
SmallLow == U64FromInt(-2 * MAX_LENGTH)

SmallHigh == U64FromInt(2 * MAX_LENGTH)

SmallOffset(x) == SLess(SmallLow, x) /\ SLess(x, SmallHigh)

MaxPos == U64FromNat(MAX_LENGTH)

IntClamp(n) == IF n > MAX_LENGTH THEN MAX_LENGTH ELSE IF n < 0 THEN 0 ELSE n

(* the value new_pos has before the two clamping tests, from the call's    *)
(* arguments and the position before the call                              *)
SeekComputed(old, offset, orig) ==
    CASE orig = 0 -> offset
      [] orig = 1 -> U64Add(U64FromNat(old), offset)
      [] orig = 2 -> U64Add(MaxPos, U64Neg(offset))
      [] OTHER -> U64Zero

(* what a step that is a call of lseek must satisfy *)
SeekStepOK ==
    last_call'.op = "lseek" =>
         LET c == last_call'
             old == files[c.proc].f_pos
             np == SeekComputed(old, c.offset, c.orig)
             r == files'[c.proc].f_pos
         IN  /\ r \in 0..MAX_LENGTH
             /\ c.ret = U64FromNat(r)
             /\ IF SLess(MaxPos, np) THEN r = MAX_LENGTH
                ELSE IF TopBit(np) THEN r = 0
                ELSE c.ret = np
             /\ (SmallOffset(c.offset) =>
                   r = IntClamp(CASE c.orig = 0 -> U64ToInt(c.offset)
                                  [] c.orig = 1 -> old + U64ToInt(c.offset)
                                  [] c.orig = 2 -> MAX_LENGTH - U64ToInt(c.offset)
                                  [] OTHER -> 0))

(* C4: every file position lies in 0 .. MAX_LENGTH, and so does the value  *)
(* every lseek returns, which is the new position: the computed new_pos    *)
(* (offset, f_pos + offset, or MAX_LENGTH - offset for the from-end mode,  *)
(* in 64-bit arithmetic) is replaced by MAX_LENGTH when above it and by 0  *)
(* when negative.                                                          *)
C4_SeekSaturates ==
    /\ \A p \in Procs : files[p].f_pos \in 0..MAX_LENGTH
    /\ [][SeekStepOK /\ \A p \in Procs : files'[p].f_pos \in 0..MAX_LENGTH]_vars

(* a from-end seek past the start saturated to 0, and a seek from the      *)
(* current position past the end saturated to MAX_LENGTH                   *)
C4_Witness ==
    /\ last_call.op = "lseek"
    /\ \/ /\ last_call.orig = 2
          /\ last_call.offset = U64FromInt(MAX_LENGTH + 1)
          /\ U64ToInt(last_call.ret) = 0
       \/ /\ last_call.orig = 1
          /\ last_call.offset = U64FromInt(1)
          /\ U64ToInt(last_call.ret) = MAX_LENGTH

(* C5: at most one open is outstanding; the mutex is held exactly while    *)
(* one is; an open made while it is held returns -EBUSY and leaves the     *)
(* mutex and the files as they were; an open made while it is free, as     *)
(* after the holder's release, returns 0.                                  *)
C5_ExclusiveOpen ==
    /\ Cardinality({p \in Procs : files[p].open}) <= 1
    /\ (fib_mutex = 1) <=> (\E p \in Procs : files[p].open)
    /\ fib_mutex \in {0, 1}
    /\ last_call.op = "open" =>
         /\ (last_call.was_locked = 1 <=> last_call.ret = -EBUSY)
         /\ (last_call.was_locked = 0 <=> last_call.ret = 0)
         /\ (last_call.ret = -EBUSY =>
                fib_mutex = last_call.was_locked /\ ~files[last_call.proc].open)
         /\ (last_call.ret = 0 => fib_mutex = 1 /\ files[last_call.proc].open)
    /\ last_call.op = "release" => fib_mutex = 0

(* an open was refused with -EBUSY while the other process held the device *)
C5_Witness ==
    /\ last_call.op = "open"
    /\ last_call.ret = -EBUSY
    /\ \E p \in Procs \ {last_call.proc} : files[p].open /\ files[p].f_pos > 0

-----------------------------------------------------------------------------
(* Reading: fib_read called again and again *)

(* *offset is the file position lseek left, 0 .. MAX_LENGTH, or the offset *)
(* of a pread, which the VFS only requires to be non-negative              *)
ReadIndices == (0..MaxDirtyK) \cup {100, MAX_LENGTH, MAX_LENGTH + 1}

(* NUL, a stale digit, and the slab allocator's POISON_INUSE byte 0x5a *)
PriorBytes == {NUL, CH_0 + 7, 90}

Priors(k) ==
    IF 2 <= k /\ k <= MaxDirtyK THEN [1..(k - 1) -> PriorBytes] ELSE {<<>>}

ReadInit ==
    /\ DriverInit
    /\ seq = SeqIdle
    /\ add = AddIdle
    /\ rev = RevIdle
    /\ rd = RdIdle
    /\ ntables = 0

ReadNext ==
    \/ /\ ntables < MaxTables
       /\ \E k \in ReadIndices, ok \in BOOLEAN : \E prior \in Priors(k) :
             fib_read(k, ok, prior)
    \/ fib_read_add
    \/ fib_read_return

SpecRead == ReadInit /\ [][ReadNext]_vars

(* the NUL-terminated decimal string of the number with digits d (least   *)
(* significant first): most significant digit first                        *)
DecimalString(d) == [j \in 1..Len(d) |-> CH_0 + d[Len(d) + 1 - j]] \o <<NUL>>

(* C1: a read of index k in 0 .. MAX_LENGTH that has returned delivered    *)
(* the decimal string of F(k) and returned its length, whatever the table  *)
(* memory held before.                                                     *)
C1_ReadExact ==
    (rd.pc = "returned" /\ rd.k <= MAX_LENGTH) =>
        \A d \in {RefFibDigits(rd.k)} :
            rd.ubuf = DecimalString(d) /\ rd.ret = Len(d)

(* the same statement for the reads whose table memory held only NUL *)
C1_ReadExactZeroed ==
    (rd.pc = "returned" /\ rd.k <= MAX_LENGTH
       /\ \A j \in DOMAIN rd.prior : rd.prior[j] = NUL) =>
        \A d \in {RefFibDigits(rd.k)} :
            rd.ubuf = DecimalString(d) /\ rd.ret = Len(d)

(* C6: a read whose index exceeds MAX_LENGTH fails with an error before    *)
(* the table is allocated or any slot is written.                          *)
C6_IndexChecked ==
    (rd.pc # "idle" /\ (rd.k > MAX_LENGTH \/ rd.k < 0)) =>
        /\ rd.pc = "returned"
        /\ rd.ret < 0
        /\ rd.slots = 0
        /\ rd.max_slot = -1
        /\ ~rd.null_write

(* C7: a read whose kmalloc failed returns an error value, writes nothing  *)
(* through the null pointer and copies nothing to the user buffer.         *)
C7_AllocFailureReported ==
    (rd.pc # "idle" /\ ~rd.alloc_ok) =>
        /\ rd.pc = "returned"
        /\ rd.ret < 0
        /\ ~rd.null_write
        /\ rd.ubuf = <<>>

(* C8: every write of a read of index k in 0 .. MAX_LENGTH lands in one of *)
(* the k + 1 slots allocated and within the SLOT_BYTES bytes of its slot;  *)
(* for k < 2 the result is the one digit k and no slot above k is written. *)
C8_WritesInBounds ==
    (rd.pc \in {"loop", "returned"} /\ rd.k <= MAX_LENGTH) =>
        /\ rd.max_slot < rd.slots
        /\ rd.max_slot <= rd.k
        /\ rd.max_bytes <= SLOT_BYTES
        /\ (rd.pc = "returned" /\ rd.k < 2 => rd.ubuf = <<CH_0 + rd.k, NUL>>)

(* C9: when a read has returned, no table is left allocated. *)
C9_TableReleased ==
    rd.pc = "returned" => ntables = 0

=============================================================================
